---- MODULE Spec2Model ----
(***************************************************************************)
(* Student Information Portal (src/app.py): the data-access layer          *)
(*   load_students / save_students          (Record Store)                 *)
(*   add_student / get_all_students / search_student_by_roll (Service)     *)
(* over the one shared resource, the file STUDENTS_FILE.                   *)
(*                                                                         *)
(* Text is a sequence of characters (one-character strings, and two named  *)
(* atoms for a non-ASCII character and a lone surrogate).  A Python value  *)
(* is a tagged record: [t |-> "str", v |-> characters],                    *)
(* [t |-> "list", v |-> sequence of values] or                             *)
(* [t |-> "dict", v |-> sequence of [k |-> characters, val |-> value]]     *)
(* (a dict keeps its insertion order, as Python's does).                   *)
(*                                                                         *)
(* JSON is modelled on the subset strings / arrays / objects, with the     *)
(* escapes \" \\ \n; numbers, literals and \u escapes are outside it.      *)
(***************************************************************************)
EXTENDS Integers, Sequences, FiniteSets, TLC

VARIABLES file, pc, students, new_student, last, calls

vars == <<file, pc, students, new_student, last, calls>>

-----------------------------------------------------------------------------
(* Characters *)

Quote == "\""

Backslash == "\\"

Newline == "\n"

Space == " "

\* a character outside ASCII (written literally by ensure_ascii=False)
NonAscii == "U+00E9"

\* a lone surrogate: a Python str may hold it, UTF-8 cannot encode it
Surrogate == "U+D800"

-----------------------------------------------------------------------------
(* Python values *)

PyStr(s) == [t |-> "str", v |-> s]

PyList(es) == [t |-> "list", v |-> es]

PyDict(ps) == [t |-> "dict", v |-> ps]

\* d[k] = val on a dict's items: an existing key keeps its place and takes the
\* new value, a new key goes last
DictSet(ps, k, val) ==
    IF \E i \in 1..Len(ps) : ps[i].k = k
    THEN [i \in 1..Len(ps) |-> IF ps[i].k = k THEN [k |-> k, val |-> val] ELSE ps[i]]
    ELSE Append(ps, [k |-> k, val |-> val])

\* student[key]: a dict without the key raises KeyError, a value that is no
\* dict raises TypeError (str and list indices must be integers)
Subscript(student, key) ==
    IF student.t # "dict"
    THEN [exc |-> "TypeError", val |-> PyStr(<<>>)]
    ELSE IF \E i \in 1..Len(student.v) : student.v[i].k = key
    THEN [exc |-> "", val |-> student.v[CHOOSE i \in 1..Len(student.v) : student.v[i].k = key].val]
    ELSE [exc |-> "KeyError", val |-> PyStr(<<>>)]

\* value == roll_no, for roll_no a str: a str equals a str with the same
\* characters, and no list or dict
EqStr(value, s) == value.t = "str" /\ value.v = s

-----------------------------------------------------------------------------
(* json.dump(obj, file, indent=4, ensure_ascii=False) *)

Spaces(n) == [i \in 1..n |-> Space]

\* the newline and indentation before an item at nesting depth level
NewlineIndent(level) == <<Newline>> \o Spaces(4 * level)

\* EscapeChar leaving the quote as it is
EscapeChar_NoQuote(c) ==
    IF c = Backslash THEN <<Backslash, Backslash>>
    ELSE IF c = Newline THEN <<Backslash, "n">>
    ELSE <<c>>

\* EscapeChar leaving the backslash as it is
EscapeChar_NoBackslash(c) ==
    IF c = Quote THEN <<Backslash, Quote>>
    ELSE IF c = Newline THEN <<Backslash, "n">>
    ELSE <<c>>

EscapeChar(c) ==
    IF c = Quote THEN <<Backslash, Quote>>
    ELSE IF c = Backslash THEN <<Backslash, Backslash>>
    ELSE IF c = Newline THEN <<Backslash, "n">>
    ELSE <<c>>

RECURSIVE Escape(_)
Escape(s) == IF s = <<>> THEN <<>> ELSE EscapeChar(Head(s)) \o Escape(Tail(s))

EncodeStr(s) == <<Quote>> \o Escape(s) \o <<Quote>>

RECURSIVE Dumps(_, _)
RECURSIVE DumpItems(_, _, _)
RECURSIVE DumpMembers(_, _, _)
DumpItems(es, i, level) ==
    IF i > Len(es) THEN <<>>
    ELSE (IF i > 1 THEN <<",">> ELSE <<>>) \o NewlineIndent(level)
         \o Dumps(es[i], level) \o DumpItems(es, i + 1, level)

DumpMembers(ps, i, level) ==
    IF i > Len(ps) THEN <<>>
    ELSE (IF i > 1 THEN <<",">> ELSE <<>>) \o NewlineIndent(level)
         \o EncodeStr(ps[i].k) \o <<":", Space>> \o Dumps(ps[i].val, level)
         \o DumpMembers(ps, i + 1, level)

Dumps(val, level) ==
    IF val.t = "str" THEN EncodeStr(val.v)
    ELSE IF val.t = "list"
    THEN IF val.v = <<>> THEN <<"[", "]">>
         ELSE <<"[">> \o DumpItems(val.v, 1, level + 1) \o NewlineIndent(level) \o <<"]">>
    ELSE IF val.v = <<>> THEN <<"{", "}">>
         ELSE <<"{">> \o DumpMembers(val.v, 1, level + 1) \o NewlineIndent(level) \o <<"}">>

\* the text json.dump writes for obj
json_dump(obj) == Dumps(obj, 0)

\* the file is opened with encoding='utf-8': a lone surrogate cannot be encoded
\* (UnicodeEncodeError while writing)
CanEncode(text) == \A i \in 1..Len(text) : text[i] # Surrogate

-----------------------------------------------------------------------------
(* json.load(file) *)

IsWs(c) == c \in {Space, Newline, "\t", "\r"}

RECURSIVE SkipWs(_, _)
SkipWs(t, i) == IF i <= Len(t) /\ IsWs(t[i]) THEN SkipWs(t, i + 1) ELSE i

Fail == [ok |-> FALSE, val |-> PyStr(<<>>), pos |-> 0]

\* the body of a string from position i (after the opening quote): up to the
\* closing quote; a raw control character or an unknown escape is an error
RECURSIVE ScanString(_, _, _)
ScanString(t, i, acc) ==
    IF i > Len(t) THEN Fail
    ELSE IF t[i] = Quote THEN [ok |-> TRUE, val |-> PyStr(acc), pos |-> i + 1]
    ELSE IF t[i] = Newline \/ t[i] = "\t" \/ t[i] = "\r" THEN Fail
    ELSE IF t[i] = Backslash
    THEN IF i + 1 > Len(t) THEN Fail
         ELSE IF t[i + 1] = Quote THEN ScanString(t, i + 2, Append(acc, Quote))
         ELSE IF t[i + 1] = Backslash THEN ScanString(t, i + 2, Append(acc, Backslash))
         ELSE IF t[i + 1] = "n" THEN ScanString(t, i + 2, Append(acc, Newline))
         ELSE Fail
    ELSE ScanString(t, i + 1, Append(acc, t[i]))

RECURSIVE ParseValue(_, _)
RECURSIVE ParseItems(_, _, _)
RECURSIVE ParseMembers(_, _, _)
\* the items of an array from position i (an item is expected there)
ParseItems(t, i, acc) ==
    LET r == ParseValue(t, SkipWs(t, i))
        j == SkipWs(t, r.pos)
    IN  IF ~r.ok \/ j > Len(t) THEN Fail
        ELSE IF t[j] = "," THEN ParseItems(t, j + 1, Append(acc, r.val))
        ELSE IF t[j] = "]" THEN [ok |-> TRUE, val |-> PyList(Append(acc, r.val)), pos |-> j + 1]
        ELSE Fail

\* the members of an object from position i (a key is expected there)
ParseMembers(t, i, acc) ==
    LET a == SkipWs(t, i)
        key == IF a <= Len(t) /\ t[a] = Quote THEN ScanString(t, a + 1, <<>>) ELSE Fail
        c == SkipWs(t, key.pos)
        r == IF key.ok /\ c <= Len(t) /\ t[c] = ":"
             THEN ParseValue(t, SkipWs(t, c + 1)) ELSE Fail
        j == SkipWs(t, r.pos)
    IN  IF ~r.ok \/ j > Len(t) THEN Fail
        ELSE IF t[j] = "," THEN ParseMembers(t, j + 1, DictSet(acc, key.val.v, r.val))
        ELSE IF t[j] = "}"
        THEN [ok |-> TRUE, val |-> PyDict(DictSet(acc, key.val.v, r.val)), pos |-> j + 1]
        ELSE Fail

\* one value at position i (whitespace already skipped)
ParseValue(t, i) ==
    IF i > Len(t) THEN Fail
    ELSE IF t[i] = Quote THEN ScanString(t, i + 1, <<>>)
    ELSE IF t[i] = "["
    THEN LET j == SkipWs(t, i + 1)
         IN  IF j <= Len(t) /\ t[j] = "]"
             THEN [ok |-> TRUE, val |-> PyList(<<>>), pos |-> j + 1]
             ELSE ParseItems(t, j, <<>>)
    ELSE IF t[i] = "{"
    THEN LET j == SkipWs(t, i + 1)
         IN  IF j <= Len(t) /\ t[j] = "}"
             THEN [ok |-> TRUE, val |-> PyDict(<<>>), pos |-> j + 1]
             ELSE ParseMembers(t, j, <<>>)
    ELSE Fail

\* json.load: one value, then nothing but whitespace; ok = FALSE stands for
\* json.JSONDecodeError
json_load(text) ==
    LET r == ParseValue(text, SkipWs(text, 1))
    IN  IF r.ok /\ SkipWs(text, r.pos) > Len(text) THEN r ELSE Fail

-----------------------------------------------------------------------------
(* The persisted file *)

\* STUDENTS_FILE: whether the path exists, the text it holds, and what
\* json.load makes of that text (kept beside the text: it is a function of it)
NoFile == [exists |-> FALSE, text |-> <<>>, data |-> Fail]

FileOf(text) == [exists |-> TRUE, text |-> text, data |-> json_load(text)]

-----------------------------------------------------------------------------
(* Record Store *)

\* what the environment does to one read of the file: "ok", or "error" for
\* an OSError raised by open() or read() (permissions, I/O fault)
ReadOutcomes == {"ok", "error"}

\* LoadBody without the isinstance(data, list) test: the data goes out as it
\* is, and what iterates over it sees the keys of a dict and the characters of
\* a str
LoadBody_NoShapeCheck(f, rd) ==
    IF ~f.exists THEN [exc |-> "", val |-> <<>>]
    ELSE IF rd # "ok" THEN [exc |-> "OSError", val |-> <<>>]
    ELSE IF ~f.data.ok THEN [exc |-> "JSONDecodeError", val |-> <<>>]
    ELSE IF f.data.val.t = "dict"
    THEN [exc |-> "", val |-> [i \in 1..Len(f.data.val.v) |-> PyStr(f.data.val.v[i].k)]]
    ELSE IF f.data.val.t = "str"
    THEN [exc |-> "", val |-> [i \in 1..Len(f.data.val.v) |-> PyStr(<<f.data.val.v[i]>>)]]
    ELSE [exc |-> "", val |-> f.data.val.v]

\* the try block of load_students: the exception it raises ("" for none) and
\* the value it returns
LoadBody(f, rd) ==
    IF ~f.exists THEN [exc |-> "", val |-> <<>>]
    ELSE IF rd # "ok" THEN [exc |-> "OSError", val |-> <<>>]
    ELSE IF ~f.data.ok THEN [exc |-> "JSONDecodeError", val |-> <<>>]
    ELSE IF f.data.val.t # "list" THEN [exc |-> "ValueError", val |-> <<>>]
    ELSE [exc |-> "", val |-> f.data.val.v]

\* load_students(): the try block and its handlers (FileNotFoundError,
\* json.JSONDecodeError, ValueError, Exception), each returning []
load_students(f, rd) ==
    LET r == LoadBody(f, rd)
    IN  IF r.exc = "" THEN r
        ELSE IF r.exc = "FileNotFoundError" THEN [exc |-> "", val |-> <<>>]
        ELSE IF r.exc = "JSONDecodeError" THEN [exc |-> "", val |-> <<>>]
        ELSE IF r.exc = "ValueError" THEN [exc |-> "", val |-> <<>>]
        ELSE [exc |-> "", val |-> <<>>]

\* the text before the string chunk that holds the first lone surrogate: the
\* chunks json.dump wrote before the encoding error.  In a serialization a
\* quote inside a string follows a backslash and an opening quote never does.
WrittenBefore(t) ==
    LET s == CHOOSE i \in 1..Len(t) : t[i] = Surrogate /\ \A k \in 1..(i - 1) : t[k] # Surrogate
        Opens(j) == t[j] = Quote /\ (j = 1 \/ t[j - 1] # Backslash)
        start == CHOOSE j \in 1..(s - 1) : Opens(j) /\ \A k \in (j + 1)..(s - 1) : ~Opens(k)
    IN  SubSeq(t, 1, start - 1)

\* how much of the text a write that fails part-way leaves in the file: a
\* proper prefix; the two extremes stand for them all
WriteCuts(text) == {0, Len(text) - 1}

\* SaveBody with the file opened in append mode
SaveBody_AppendMode(f, students_list) ==
    LET text == f.text \o json_dump(PyList(students_list))
    IN  {[file |-> f, exc |-> "OSError", io |-> "open_error"]}
        \cup {[file |-> FileOf(SubSeq(text, 1, cut)), exc |-> "OSError", io |-> "write_error"] :
                cut \in {Len(f.text), Len(text) - 1}}
        \cup {[file |-> FileOf(text), exc |-> "", io |-> "ok"]}

\* the try block of save_students, in every way the environment lets it end:
\* the file afterwards, the exception raised ("" for none), and what the
\* write met:
\*   "open_error"    OSError from open(..., 'w'): the file is as it was
\*   "write_error"   OSError while writing, after open() truncated the file
\*   "encode_error"  UnicodeEncodeError: the text has a lone surrogate
\*   "ok"            the whole text is written
SaveBody(f, students_list) ==
    LET text == json_dump(PyList(students_list))
    IN  {[file |-> f, exc |-> "OSError", io |-> "open_error"]}
        \cup {[file |-> FileOf(SubSeq(text, 1, cut)), exc |-> "OSError", io |-> "write_error"] :
                cut \in WriteCuts(text)}
        \cup {IF CanEncode(text)
              THEN [file |-> FileOf(text), exc |-> "", io |-> "ok"]
              ELSE [file |-> FileOf(WrittenBefore(text)),
                    exc |-> "UnicodeEncodeError", io |-> "encode_error"]}

\* SaveReturn with a handler that reports success
SaveReturn_AlwaysTrue(r) == [file |-> r.file, io |-> r.io, exc |-> "", ret |-> TRUE]

\* the handlers of save_students (IOError, Exception) on one outcome of its
\* try block: True after the try block, False from either handler
SaveReturn(r) ==
    IF r.exc = "" THEN [file |-> r.file, io |-> r.io, exc |-> "", ret |-> TRUE]
    ELSE IF r.exc = "OSError" THEN [file |-> r.file, io |-> r.io, exc |-> "", ret |-> FALSE]
    ELSE [file |-> r.file, io |-> r.io, exc |-> "", ret |-> FALSE]

\* save_students(students_list): every outcome the environment allows
save_students(f, students_list) == {SaveReturn(r) : r \in SaveBody(f, students_list)}

-----------------------------------------------------------------------------
(* Record Service *)

K_name == <<"n", "a", "m", "e">>

K_roll_no == <<"r", "o", "l", "l", "_", "n", "o">>

K_department == <<"d", "e", "p", "a", "r", "t", "m", "e", "n", "t">>

K_email == <<"e", "m", "a", "i", "l">>

\* new_student = {'name': ..., 'roll_no': ..., 'department': ..., 'email': ...}
NewStudent(name, roll_no, department, email) ==
    PyDict(<< [k |-> K_name, val |-> PyStr(name)],
              [k |-> K_roll_no, val |-> PyStr(roll_no)],
              [k |-> K_department, val |-> PyStr(department)],
              [k |-> K_email, val |-> PyStr(email)] >>)

\* Appended keeping the new record only
Appended_Only(list, new) == <<new>>

\* Appended putting the new record first
Appended_Front(list, new) == <<new>> \o list

\* students.append(new_student)
Appended(list, new) == Append(list, new)

\* for student in students: if student['roll_no'] == roll_no: ...
\* the index of the first match ("match"), the exception raised on the way
\* ("raise"), or the end of the list ("none")
RECURSIVE ScanRoll(_, _, _)
ScanRoll(list, roll_no, i) ==
    IF i > Len(list) THEN [kind |-> "none", idx |-> 0, exc |-> ""]
    ELSE LET r == Subscript(list[i], K_roll_no)
         IN  IF r.exc # "" THEN [kind |-> "raise", idx |-> i, exc |-> r.exc]
             ELSE IF EqStr(r.val, roll_no) THEN [kind |-> "match", idx |-> i, exc |-> ""]
             ELSE ScanRoll(list, roll_no, i + 1)

\* a letter without its case
Fold(c) == IF c = "R" THEN "r" ELSE IF c = "A" THEN "a" ELSE IF c = "O" THEN "o" ELSE c

FoldText(t) == [i \in 1..Len(t) |-> Fold(t[i])]

\* SearchScan comparing without regard to case
RECURSIVE SearchScan_IgnoreCaseFrom(_, _, _)
SearchScan_IgnoreCaseFrom(list, roll_no, i) ==
    IF i > Len(list) THEN [kind |-> "none", idx |-> 0, exc |-> ""]
    ELSE LET r == Subscript(list[i], K_roll_no)
         IN  IF r.exc # "" THEN [kind |-> "raise", idx |-> i, exc |-> r.exc]
             ELSE IF r.val.t = "str" /\ FoldText(r.val.v) = FoldText(roll_no)
             THEN [kind |-> "match", idx |-> i, exc |-> ""]
             ELSE SearchScan_IgnoreCaseFrom(list, roll_no, i + 1)

SearchScan_IgnoreCase(list, roll_no) == SearchScan_IgnoreCaseFrom(list, roll_no, 1)

\* AddScan without the comparison
AddScan_NoCheck(list, roll_no) == [kind |-> "none", idx |-> 0, exc |-> ""]

\* AddScan looking at the first record only
AddScan_FirstOnly(list, roll_no) ==
    IF list = <<>> THEN [kind |-> "none", idx |-> 0, exc |-> ""]
    ELSE ScanRoll(<<list[1]>>, roll_no, 1)

\* the uniqueness scan of add_student
AddScan(list, roll_no) == ScanRoll(list, roll_no, 1)

\* the scan of search_student_by_roll
SearchScan(list, roll_no) == ScanRoll(list, roll_no, 1)

\* the messages of add_student
MsgExists(roll_no) == <<"Student with roll number ">> \o roll_no \o <<" already exists!">>

MsgAdded == <<"Student added successfully!">>

MsgSaveError == <<"Error saving student data.">>

MsgError(exc) == <<"Error adding student: ", exc>>

\* what a call hands to its caller: the exception that leaves it ("" for
\* none), the (success, message) tuple of add_student, and the value of a query
Return(exc, ok, msg, val) == [exc |-> exc, ok |-> ok, msg |-> msg, val |-> val]

\* except Exception as e: return False, f"Error adding student: {str(e)}"
AddExcept(exc) == Return("", FALSE, MsgError(exc), <<>>)

\* add_student after its save: lines 211-214
AddAfterSave(saved) ==
    IF saved.exc # "" THEN AddExcept(saved.exc)
    ELSE IF saved.ret THEN Return("", TRUE, MsgAdded, <<>>)
    ELSE Return("", FALSE, MsgSaveError, <<>>)

\* except Exception as e: ... return None
SearchExcept(exc) == Return("", FALSE, <<>>, <<>>)

\* search_student_by_roll(roll_no) on what load_students returned: the
\* student found (a sequence of one) or None (the empty sequence)
SearchReturn(loaded, roll_no) ==
    IF loaded.exc # "" THEN SearchExcept(loaded.exc)
    ELSE LET s == SearchScan(loaded.val, roll_no)
         IN  IF s.kind = "match" THEN Return("", FALSE, <<>>, <<loaded.val[s.idx]>>)
             ELSE IF s.kind = "raise" THEN SearchExcept(s.exc)
             ELSE Return("", FALSE, <<>>, <<>>)

-----------------------------------------------------------------------------
(* Bounds and inputs *)

\* calls of the service started in one behaviour
MaxCalls == 3

\* the request handlers that may be inside add_student at the same time
Requests == {1, 2}

R1 == <<"R", "1">>

r1 == <<"r", "1">>

R9 == <<"R", "9">>

\* roll numbers given to add_student: two that differ in case only
AddRolls == {R1, r1}

\* roll numbers given to search_student_by_roll
SearchRolls == {R1, r1, R9}

\* (name, department, email) given to add_student
Ann == [name |-> <<"A", "n">>, department |-> <<"C", "S">>, email |-> <<"a", "@", "x">>]

Bob == [name |-> <<"O", Quote, NonAscii>>, department |-> <<"E", "E">>, email |-> <<"b", "@", "x">>]

People == {Ann, Bob}

StudentOf(who, roll_no) == NewStudent(who.name, roll_no, who.department, who.email)

\* a store as save_students writes it
Stored(list) == FileOf(json_dump(PyList(list)))

\* stores that hold records with unique roll numbers
CleanStores ==
    { NoFile, Stored(<<>>), Stored(<<StudentOf(Ann, R1)>>),
      Stored(<<StudentOf(Bob, r1), StudentOf(Ann, R1)>>) }

\* a store written by hand: other spacing, other key order, one more key
HandWritten ==
    FileOf(<<"[", "{">> \o EncodeStr(K_roll_no) \o <<":">> \o EncodeStr(R1) \o <<",">>
           \o EncodeStr(K_name) \o <<":">> \o EncodeStr(Ann.name) \o <<",">>
           \o EncodeStr(<<"x">>) \o <<":", "[", "]", "}", "]", Newline>>)

\* stores the file may hold when it was not written by save_students alone:
\* a duplicate roll_no, an entry without roll_no, an entry that is no object,
\* a single object, a scalar, text that is no JSON
OddStores ==
    { Stored(<<StudentOf(Ann, R1), StudentOf(Bob, R1)>>),
      Stored(<<PyDict(<<[k |-> K_name, val |-> PyStr(Ann.name)]>>), StudentOf(Ann, R1)>>),
      Stored(<<StudentOf(Bob, r1), PyStr(<<"x">>), StudentOf(Ann, R1)>>),
      HandWritten,
      FileOf(json_dump(StudentOf(Ann, R1))),
      FileOf(json_dump(PyStr(<<"x">>))),
      FileOf(<<"[", "{">>) }

-----------------------------------------------------------------------------
(* State *)

\* The record of the last call that acted:
\*   op    "add_load" (add_student has loaded, scanned and appended),
\*         "add" (add_student returned), "list", "search", "save", "load"
\*   p     the request handler (0 for a query)
\*   roll  the roll_no argument
\*   io    what the call's read or write met
\*   ret   what the call returned (Return)
\*   new   add: the record built from the arguments
\*   how   add: "solo" when no other call acted between its load and its
\*         return; "raced" when the call before its save was another
\*         handler's successful add of the same roll_no (which acted after
\*         this handler's load); "mixed" otherwise
\*   fresh add: roll_no was in no record of the persisted collection at its
\*         load, and the add ran solo
Call(op, p, roll, io, ret, new, how, fresh) ==
    [op |-> op, p |-> p, roll |-> roll, io |-> io, ret |-> ret, new |-> new,
     how |-> how, fresh |-> fresh]

NoReturn == Return("", FALSE, <<>>, <<>>)

NoStudent == PyDict(<<>>)

NoCall == Call("init", 0, <<>>, "ok", NoReturn, NoStudent, "solo", FALSE)

\* the persisted collection: what a load that the environment lets through returns
Persisted(f) == load_students(f, "ok").val

\* roll_no is the roll_no of a record of the list
HasRoll(list, roll_no) ==
    \E i \in 1..Len(list) :
        LET r == Subscript(list[i], K_roll_no) IN r.exc = "" /\ EqStr(r.val, roll_no)

InitWith(stores) ==
    /\ file \in stores
    /\ pc = [p \in Requests |-> "idle"]
    /\ students = [p \in Requests |-> <<>>]
    /\ new_student = [p \in Requests |-> NoStudent]
    /\ last = NoCall
    /\ calls = 0

Init == InitWith(CleanStores \cup OddStores)

-----------------------------------------------------------------------------
(* add_student, in its two steps on the file *)

\* lines 190-208: load, scan; return on a duplicate or an exception, else
\* append the new record to the loaded list
add_student_load(p) ==
    /\ pc[p] = "idle"
    /\ calls < MaxCalls
    /\ \E rd \in ReadOutcomes :
        LET loaded == load_students(file, rd)
            persisted == Persisted(file)
        IN  \E who \in People, roll_no \in AddRolls :
            LET scan == AddScan(loaded.val, roll_no)
                new == StudentOf(who, roll_no)
                fresh == ~HasRoll(persisted, roll_no)
            IN  IF loaded.exc # ""
                THEN /\ last' = Call("add", p, roll_no, rd, AddExcept(loaded.exc), new, "solo", fresh)
                     /\ UNCHANGED <<pc, students, new_student>>
                ELSE IF scan.kind = "match"
                THEN /\ last' = Call("add", p, roll_no, rd,
                                     Return("", FALSE, MsgExists(roll_no), <<>>), new, "solo", fresh)
                     /\ UNCHANGED <<pc, students, new_student>>
                ELSE IF scan.kind = "raise"
                THEN /\ last' = Call("add", p, roll_no, rd, AddExcept(scan.exc), new, "solo", fresh)
                     /\ UNCHANGED <<pc, students, new_student>>
                ELSE /\ last' = Call("add_load", p, roll_no, rd, NoReturn, new, "solo", fresh)
                     /\ pc' = [pc EXCEPT ![p] = "save"]
                     /\ students' = [students EXCEPT ![p] = Appended(loaded.val, new)]
                     /\ new_student' = [new_student EXCEPT ![p] = new]
    /\ calls' = calls + 1
    /\ UNCHANGED file

\* lines 210-214: save the list and return
add_student_save(p) ==
    /\ pc[p] = "save"
    /\ \E saved \in save_students(file, students[p]) :
        LET roll_no == Subscript(new_student[p], K_roll_no).val.v
            solo == last.op = "add_load" /\ last.p = p
            raced == last.op = "add" /\ last.p # p /\ last.ret.ok /\ last.roll = roll_no
            how == IF solo THEN "solo" ELSE IF raced THEN "raced" ELSE "mixed"
        IN  /\ file' = saved.file
            /\ last' = Call("add", p, roll_no, saved.io, AddAfterSave(saved),
                            new_student[p], how, solo /\ last.fresh)
    /\ pc' = [pc EXCEPT ![p] = "idle"]
    /\ students' = [students EXCEPT ![p] = <<>>]
    /\ new_student' = [new_student EXCEPT ![p] = NoStudent]
    /\ UNCHANGED calls

-----------------------------------------------------------------------------
(* The queries *)

\* get_all_students(): return load_students()
get_all_students ==
    /\ calls < MaxCalls
    /\ \E rd \in ReadOutcomes :
        LET loaded == load_students(file, rd)
        IN  last' = Call("list", 0, <<>>, rd, Return(loaded.exc, FALSE, <<>>, loaded.val),
                         NoStudent, "solo", FALSE)
    /\ calls' = calls + 1
    /\ UNCHANGED <<file, pc, students, new_student>>

\* search_student_by_roll(roll_no)
search_student_by_roll ==
    /\ calls < MaxCalls
    /\ \E rd \in ReadOutcomes :
        LET loaded == load_students(file, rd)
        IN  \E roll_no \in SearchRolls :
            last' = Call("search", 0, roll_no, rd, SearchReturn(loaded, roll_no),
                         NoStudent, "solo", FALSE)
    /\ calls' = calls + 1
    /\ UNCHANGED <<file, pc, students, new_student>>

Next ==
    \/ \E p \in Requests : add_student_load(p)
    \/ \E p \in Requests : add_student_save(p)
    \/ get_all_students
    \/ search_student_by_roll

Spec == Init /\ [][Next]_vars

\* from a missing, empty or duplicate-free store
InitClean == InitWith(CleanStores)

SpecClean == InitClean /\ [][Next]_vars

-----------------------------------------------------------------------------
(* save_students then load_students, on collections of records whose text   *)
(* fields hold quotes, backslashes, newlines, non-ASCII characters and       *)
(* lone surrogates                                                           *)

\* the longest text of a field
MaxStrLen == 2

RTAlphabet == {"a", "n", Quote, Backslash, Newline, NonAscii, Surrogate}

RECURSIVE TextsUpTo(_)
TextsUpTo(n) ==
    IF n = 0 THEN {<<>>}
    ELSE LET S == TextsUpTo(n - 1) IN S \cup {Append(t, c) : t \in S, c \in RTAlphabet}

RTTexts == TextsUpTo(MaxStrLen)

RTStudent(t) == NewStudent(t, R9, Ann.department, t)

\* the collections saved: empty, one record, and a record before and after
\* another
RTCollections ==
    {<<>>} \cup {<<RTStudent(t)>> : t \in RTTexts}
    \cup {<<RTStudent(t), StudentOf(Ann, R1)>> : t \in RTTexts}
    \cup {<<StudentOf(Bob, r1), RTStudent(t)>> : t \in RTTexts}

InitRoundTrip ==
    /\ file \in {NoFile, Stored(<<StudentOf(Ann, R1)>>)}
    /\ pc = [p \in Requests |-> "idle"]
    /\ \E X \in RTCollections : students = [p \in Requests |-> X]
    /\ new_student = [p \in Requests |-> NoStudent]
    /\ last = NoCall
    /\ calls = 0

\* save_students(X)
save_students_call ==
    /\ last.op = "init"
    /\ \E saved \in save_students(file, students[1]) :
        /\ file' = saved.file
        /\ last' = Call("save", 0, <<>>, saved.io, Return(saved.exc, saved.ret, <<>>, <<>>),
                        NoStudent, "solo", FALSE)
    /\ UNCHANGED <<pc, students, new_student, calls>>

\* load_students(), directly after; ret.ok keeps what the save returned
load_students_call ==
    /\ last.op = "save"
    /\ \E rd \in ReadOutcomes :
        LET loaded == load_students(file, rd)
        IN  last' = Call("load", 0, <<>>, rd, Return(loaded.exc, last.ret.ok, <<>>, loaded.val),
                         NoStudent, "solo", FALSE)
    /\ UNCHANGED <<file, pc, students, new_student, calls>>

NextRoundTrip == save_students_call \/ load_students_call

SpecRoundTrip == InitRoundTrip /\ [][NextRoundTrip]_vars

-----------------------------------------------------------------------------
(* Properties *)

\* the step is the first step of an add_student call
IsAddCall == calls' = calls + 1 /\ last'.op \in {"add", "add_load"}

\* the step is the save step of handler p's add_student call
IsSaveOf(p) == pc[p] = "save" /\ pc'[p] = "idle"

\* the entry is a record whose roll_no is roll_no
Matches(entry, roll_no) ==
    LET r == Subscript(entry, K_roll_no) IN r.exc = "" /\ EqStr(r.val, roll_no)

\* student['roll_no'] raises on the entry
Malformed(entry) == Subscript(entry, K_roll_no).exc # ""

\* no two records of the list have the same roll_no
UniqueRolls(list) ==
    \A i, j \in 1..Len(list) :
        i < j => LET a == Subscript(list[i], K_roll_no)
                     b == Subscript(list[j], K_roll_no)
                 IN  ~(a.exc = "" /\ b.exc = "" /\ a.val = b.val)

\* the records of the list whose roll_no is roll_no
CountRoll(list, roll_no) == Cardinality({i \in 1..Len(list) : Matches(list[i], roll_no)})

\* C1: from a missing, empty or duplicate-free store, no two records of the
\* persisted collection have the same roll_no, in every reachable state (add
\* calls of two handlers interleave between their load and save steps), and
\* no list that get_all_students returns has two
C1_UniqueRollNo ==
    /\ UniqueRolls(Persisted(file))
    /\ last.op = "list" => UniqueRolls(last.ret.val)

\* C1: a handler returned success for a roll_no right after another handler
\* returned success for the same roll_no, both having loaded before
C1_Witness ==
    /\ last.op = "add" /\ last.how = "raced" /\ last.ret.ok
    /\ Len(Persisted(file)) = 2

C3_AddThenFind ==
    [][(/\ last.op = "add" /\ last.fresh /\ last.io = "ok"
        /\ calls' = calls + 1 /\ last'.op = "search"
        /\ last'.roll = last.roll /\ last'.io = "ok")
        => /\ last.ret = Return("", TRUE, MsgAdded, <<>>)
           /\ last'.ret = Return("", FALSE, <<>>, <<last.new>>)]_vars

\* C3: Bob was added under r1 to the store that held Ann, and the search for
\* r1 that followed returned Bob's record (no initial store holds that list)
C3_Witness ==
    /\ calls = 2 /\ last.op = "search" /\ last.roll = r1
    /\ last.ret.val = <<StudentOf(Bob, r1)>>
    /\ Persisted(file) = <<StudentOf(Ann, R1), StudentOf(Bob, r1)>>

\* C4: an add_student that reaches its save returns (True, <added>) exactly
\* when the write went through, and then the file holds the list it saved;
\* it returns (False, <save error>) when the write failed in any way; no
\* add_student lets an exception out; the save-error message is not the
\* duplicate message
C4_SaveResult ==
    [][/\ \A p \in Requests : IsSaveOf(p) =>
            /\ last'.op = "add"
            /\ last'.io = "ok" =>
                /\ last'.ret = Return("", TRUE, MsgAdded, <<>>)
                /\ Persisted(file') = students[p]
            /\ last'.io # "ok" => last'.ret = Return("", FALSE, MsgSaveError, <<>>)
            /\ MsgSaveError # MsgExists(last'.roll)
       /\ last'.op = "add" => last'.ret.exc = ""]_vars

\* C4: a write failed after the file was truncated and add_student returned
\* the save-error tuple
C4_Witness ==
    /\ last.op = "add" /\ last.io = "write_error"
    /\ last.ret = Return("", FALSE, MsgSaveError, <<>>)
    /\ ~file.data.ok

\* C5: get_all_students lets no exception out; it returns [] when the file is
\* missing, when its text is no JSON, when the JSON is no list, and when the
\* read fails; otherwise it returns the list the text holds
C5_LoadFailsSoft ==
    last.op = "list" =>
        LET parsed == json_load(file.text)
            unreadable == \/ ~file.exists
                          \/ last.io # "ok"
                          \/ ~parsed.ok
                          \/ parsed.val.t # "list"
        IN  /\ last.ret.exc = ""
            /\ last.ret.val = IF unreadable THEN <<>> ELSE parsed.val.v

\* C5: the file holds a single object and get_all_students returned []
C5_Witness ==
    /\ last.op = "list" /\ last.io = "ok" /\ last.ret.val = <<>>
    /\ file.exists /\ file.data.ok /\ file.data.val.t = "dict"

\* C6: when save_students(X) returned True and the load_students() that
\* follows reads the file, it returns X (the empty list for the empty X)
C6_RoundTrip ==
    (last.op = "load" /\ last.ret.ok /\ last.io = "ok")
        => /\ last.ret.exc = ""
           /\ last.ret.val = students[1]
           /\ students[1] = <<>> => last.ret.val = <<>>

\* C6: a list of two records, the first with a backslash and a quote in its
\* fields, was saved over an older file and read back
C6_Witness ==
    /\ last.op = "load" /\ last.ret.ok /\ last.io = "ok"
    /\ students[1] = <<RTStudent(<<Backslash, Quote>>), StudentOf(Ann, R1)>>
    /\ last.ret.val = students[1]

\* C7: search_student_by_roll lets no exception out; the student it returns
\* is the first record of the loaded list whose roll_no equals the argument,
\* reached with no exception on the way; it returns None when no record
\* matches, and when an entry before the first match raises (no roll_no, or
\* no object)
C7_FirstExactMatch ==
    last.op = "search" =>
        LET list == IF last.io = "ok" THEN Persisted(file) ELSE <<>>
            Reached(i) == /\ Matches(list[i], last.roll)
                          /\ \A j \in 1..(i - 1) :
                                ~Malformed(list[j]) /\ ~Matches(list[j], last.roll)
        IN  /\ last.ret.exc = ""
            /\ Len(last.ret.val) <= 1
            /\ last.ret.val # <<>> =>
                /\ Matches(last.ret.val[1], last.roll)
                /\ \E i \in 1..Len(list) : Reached(i) /\ list[i] = last.ret.val[1]
            /\ last.ret.val = <<>> => ~\E i \in 1..Len(list) : Reached(i)

\* C7: the store holds a record with the roll_no searched for, behind an
\* entry without roll_no, and the search returned None
C7_Witness ==
    /\ last.op = "search" /\ last.io = "ok" /\ last.ret.val = <<>>
    /\ HasRoll(Persisted(file), last.roll)

\* every record of list a is in list b at the same place
IsPrefix(a, b) == Len(a) <= Len(b) /\ \A i \in 1..Len(a) : b[i] = a[i]

\* C8 as claimed, on the steps whose write (if they write) goes through:
\* every record of the persisted collection is still in it after the step, be
\* it a query, a load that fails, or the save of an add that interleaved
C8_Original ==
    [][(\A p \in Requests : IsSaveOf(p) => last'.io = "ok")
        => \A i \in 1..Len(Persisted(file)) :
            \E j \in 1..Len(Persisted(file')) : Persisted(file')[j] = Persisted(file)[i]]_vars

\* C8 as amended: the first step of every call (a query, or the load and
\* scan of add_student) leaves the file as it is; an add_student that runs
\* alone, whose load read the store and that returns success, keeps every
\* persisted record, with its fields, at its place
C8_RecordsKept ==
    [][/\ calls' = calls + 1 => file' = file
       /\ \A p \in Requests :
            (IsSaveOf(p) /\ last.op = "add_load" /\ last.p = p /\ last.io = "ok" /\ last'.ret.ok)
                => IsPrefix(Persisted(file), Persisted(file'))]_vars

\* C8: a third record was added, alone, behind two kept ones
C8_Witness ==
    /\ last.op = "add" /\ last.how = "solo" /\ last.ret.ok
    /\ Len(Persisted(file)) = 3
    /\ Persisted(file)[1] = StudentOf(Ann, R1)

\* C9: from a store of well-formed records, (1) an add_student whose roll_no
\* is in no persisted record passes the uniqueness scan, whether or not
\* another handler holds an unsaved list with that roll_no; (2) when handler
\* q saves right after another handler's add of the same roll_no returned
\* success, q having loaded before that save, and q's write goes through,
\* then q returns success too, the file holds q's list, and one record only
\* has the roll_no: q's, at the end
C9_LostUpdate ==
    [][\A q \in Requests :
        /\ (/\ pc[q] = "idle" /\ IsAddCall /\ last'.p = q
            /\ ~HasRoll(Persisted(file), last'.roll))
            => /\ pc'[q] = "save"
               /\ last'.op = "add_load"
        /\ (/\ IsSaveOf(q) /\ last'.io = "ok"
            /\ last.op = "add" /\ last.p # q /\ last.ret.ok
            /\ Matches(new_student[q], last.roll))
            => /\ last'.ret = Return("", TRUE, MsgAdded, <<>>)
               /\ Persisted(file') = students[q]
               /\ CountRoll(Persisted(file'), last.roll) = 1
               /\ Persisted(file')[Len(Persisted(file'))] = new_student[q]]_vars

\* C9: both handlers returned success for R1 and the store holds the second
\* saver's record alone
C9_Witness ==
    /\ last.op = "add" /\ last.how = "raced" /\ last.ret.ok /\ last.roll = R1
    /\ CountRoll(Persisted(file), R1) = 1
    /\ Persisted(file) = <<last.new>>

====
